---- MODULE Spec2Model ----
(***************************************************************************)
(* wrfhydropy/core/utilities.py: compare_nc_nccmp, compare_ncfiles,        *)
(* open_nwmdataset and __make_relative__ as state machines.                *)
(*                                                                         *)
(* A Python str is a sequence of lexemes (Lit("nccmp") is <<"nccmp">>), so *)
(* that '+' and ','.join are sequence concatenations and a conversion is   *)
(* never the identity.  An optional argument is [some, val].               *)
(***************************************************************************)
EXTENDS Naturals, Integers, Sequences, FiniteSets, TLC

VARIABLES
    pc,               \* position of the function under execution
    candidate_nc,     \* compare_nc_nccmp: argument
    reference_nc,     \* compare_nc_nccmp: argument
    nccmp_options,    \* compare_nc_nccmp / compare_ncfiles: argument
    exclude_vars,     \* compare_nc_nccmp / compare_ncfiles: argument
    command_list,     \* compare_nc_nccmp: argv handed to subprocess.run
    proc,             \* compare_nc_nccmp: the CompletedProcess
    retval,           \* what the function under execution returned
    warned,           \* number of warnings.warn calls so far
    candidate_files,  \* compare_ncfiles: argument
    reference_files,  \* compare_ncfiles: argument
    fs,               \* compare_ncfiles: the regular files on disk
    idx,              \* loop position (compare_ncfiles, open_nwmdataset)
    output_list,      \* compare_ncfiles: local
    compared,         \* compare_ncfiles: the pairs handed to compare_nc_nccmp
    paths,            \* open_nwmdataset: argument
    chunks,           \* open_nwmdataset: argument
    ds_keys,          \* open_nwmdataset: keys of ds_dict in insertion order
    ds_dict,          \* open_nwmdataset: key -> list of datasets
    forecast_list,    \* open_nwmdataset: local
    run_object,       \* __make_relative__: the object, mutated in place
    calls             \* __make_relative__: one record per finished call

vars == <<pc, candidate_nc, reference_nc, nccmp_options, exclude_vars,
          command_list, proc, retval, warned, candidate_files,
          reference_files, fs, idx, output_list, compared, paths, chunks,
          ds_keys, ds_dict, forecast_list, run_object, calls>>

cmpVars == <<candidate_nc, reference_nc, command_list, proc>>
optVars == <<nccmp_options, exclude_vars>>
nfVars  == <<candidate_files, reference_files, fs, output_list, compared>>
nwVars  == <<paths, chunks, ds_keys, ds_dict, forecast_list>>
relVars == <<run_object, calls>>

(***************************************************************************)
(* Bounds                                                                  *)
(***************************************************************************)
MaxFlags  == 2   \* length of nccmp_options
MaxVars   == 2   \* length of exclude_vars
MaxLines  == 3   \* lines of the subprocess's standard output
MaxFields == 2   \* fields on one line of standard output
MaxCand   == 2   \* length of candidate_files
MaxRef    == 2   \* length of reference_files
MaxFiles  == 3   \* length of paths
MaxTimes  == 2   \* length of one file's time axis
MaxList   == 2   \* length of a list or WrfHydroTs attribute
MaxCalls  == 2   \* calls of __make_relative__ on one object

(***************************************************************************)
(* Python values                                                           *)
(***************************************************************************)
SeqsUpTo(S, n) == UNION {[1..k -> S] : k \in 0..n}

None == [some |-> FALSE, val |-> <<>>]
Some(v) == [some |-> TRUE, val |-> v]

Lit(s) == <<s>>

\* sep.join(strs)
RECURSIVE Join(_, _)
Join(strs, sep) ==
    IF Len(strs) = 0 THEN <<>>
    ELSE IF Len(strs) = 1 THEN strs[1]
    ELSE strs[1] \o sep \o Join(Tail(strs), sep)

\* a pathlib.PosixPath of a file: the directory it is in and its filename
FilePath(d, n) == [parent |-> d, name |-> n]

\* str(path)
Str(p) == <<p.parent, "/", p.name>>

NoValue == [kind |-> "unset"]

(***************************************************************************)
(* compare_nc_nccmp                                                        *)
(***************************************************************************)
DefaultOptions ==
    <<Lit("--data"), Lit("--metadata"), Lit("--force"), Lit("--quiet")>>

Flags == {Lit("--data"), Lit("--quiet")}
VarNames == {Lit("ACMELT"), Lit("qstrmvolrt")}

OptionLists == SeqsUpTo(Flags, MaxFlags) \cup {DefaultOptions}
ExcludeLists == {None} \cup {Some(v) : v \in SeqsUpTo(VarNames, MaxVars)}

\* lines 26-45: the argv
CommandList(cand, ref, opts, excl) ==
    <<Lit("nccmp")>> \o opts \o <<Lit("-S")>>
        \o (IF excl.some
              THEN <<Lit("-x ") \o Join(excl.val, Lit(","))>>
              ELSE <<>>)
        \o <<Str(cand), Str(ref)>>

\* Standard output is a sequence of lines, a line a sequence of fields
\* separated by blanks; a field is a word of valid UTF-8 or a word holding
\* the byte 0xFF.
Words == {"w", "xFF"}
StdoutLines == SeqsUpTo(Words, MaxFields)
Stdouts == SeqsUpTo(StdoutLines, MaxLines)
ReturnCodes == {-9, 0, 1}

\* subprocess.run(command_list, stdout=PIPE, stderr=PIPE)
CompletedProcess(args, rc, out) ==
    [args |-> args, returncode |-> rc, stdout |-> out]

\* bytes.decode('utf-8') raises UnicodeDecodeError on an invalid byte
Decodable(out) ==
    \A i \in 1..Len(out) : \A j \in 1..Len(out[i]) : out[i][j] # "xFF"

\* pandas skips blank lines
NonBlank(text) == SelectSeq(text, LAMBDA l : Len(l) > 0)

Max(a, b) == IF a >= b THEN a ELSE b

\* pd.read_table(output, delim_whitespace=True, header=0) raises
\* EmptyDataError when there is no line to take the header from, and
\* ParserError when a data row after the first has more fields than expected.
ReadTableOk(text) ==
    LET rows == NonBlank(text) IN
    /\ Len(rows) > 0
    /\ \A i \in 3..Len(rows) :
          Len(rows[i]) <= Max(Len(rows[1]), Len(rows[2]))

ReadTable(text) ==
    LET rows == NonBlank(text) IN
    [header |-> Len(rows[1]), data |-> [i \in 1..(Len(rows) - 1) |-> Len(rows[i + 1])]]

\* lines 52-66: what compare_nc_nccmp does with the finished subprocess
NccmpOut(p) ==
    IF p.returncode = 0
      THEN [kind |-> "None", warn |-> FALSE]
    ELSE IF ~Decodable(p.stdout)
      THEN [kind |-> "UnicodeDecodeError", warn |-> FALSE]
    ELSE IF ReadTableOk(p.stdout)
      THEN [kind |-> "table", warn |-> FALSE, table |-> ReadTable(p.stdout)]
    ELSE [kind |-> "proc", warn |-> TRUE, proc |-> p]

Raised(r) == r.kind \in {"UnicodeDecodeError", "IndexError", "ValueError"}

NfIdle == /\ candidate_files = <<>> /\ reference_files = <<>> /\ fs = {}
          /\ output_list = <<>> /\ compared = <<>>
NwIdle == /\ paths = <<>> /\ chunks = None /\ ds_keys = <<>>
          /\ ds_dict = <<>> /\ forecast_list = <<>>
RelIdle == /\ run_object = NoValue /\ calls = <<>>
CmpIdle == /\ candidate_nc = NoValue /\ reference_nc = NoValue
           /\ command_list = <<>> /\ proc = NoValue

InitNccmp ==
    /\ pc = "start"
    /\ candidate_nc = FilePath("cand", "a.nc")
    /\ reference_nc = FilePath("ref", "a.nc")
    /\ nccmp_options \in OptionLists
    /\ exclude_vars \in ExcludeLists
    /\ command_list = <<>>
    /\ proc = NoValue
    /\ retval = NoValue
    /\ warned = 0
    /\ idx = 0
    /\ NfIdle /\ NwIdle /\ RelIdle

\* lines 26-50: build the argv and run the tool to completion
RunNccmp ==
    /\ pc = "start"
    /\ \E rc \in ReturnCodes, out \in Stdouts :
         /\ command_list' = CommandList(candidate_nc, reference_nc,
                                        nccmp_options, exclude_vars)
         /\ proc' = CompletedProcess(command_list', rc, out)
    /\ pc' = "check"
    /\ UNCHANGED <<candidate_nc, reference_nc, optVars, retval, warned, idx,
                   nfVars, nwVars, relVars>>

\* lines 52-66
CheckReturnCode ==
    /\ pc = "check"
    /\ retval' = NccmpOut(proc)
    /\ warned' = IF retval'.warn THEN warned + 1 ELSE warned
    /\ pc' = IF Raised(retval') THEN "raised" ELSE "done"
    /\ UNCHANGED <<cmpVars, optVars, idx, nfVars, nwVars, relVars>>

NextNccmp == RunNccmp \/ CheckReturnCode

SpecNccmp == InitNccmp /\ [][NextNccmp]_vars

(***************************************************************************)
(* compare_ncfiles                                                         *)
(***************************************************************************)
DefaultExcludeVars ==
    <<Lit("ACMELT"), Lit("ACSNOW"), Lit("SFCRUNOFF"), Lit("UDRUNOFF"),
      Lit("ACCPRCP"), Lit("ACCECAN"), Lit("ACCEDIR"), Lit("ACCETRAN"),
      Lit("qstrmvolrt")>>

FileNames == {"a.nc", "b.nc"}
RefDirs == {"ref", "alt"}
CandidatePaths == {FilePath("cand", n) : n \in FileNames}
ReferencePaths == {FilePath(d, n) : d \in RefDirs, n \in FileNames}

\* what the tool prints in a set comparison: one line at most
NfStdouts == {out \in Stdouts : Len(out) <= 1}

\* line 86 (reference_files[0] of an empty list raises IndexError)
ref_dir == reference_files[1].parent

\* line 89: ref_dir.joinpath(file_candidate.name)
file_reference(file_candidate) == FilePath(ref_dir, file_candidate.name)

\* line 90: Path.is_file()
is_file(p) == p \in fs

InitNcfiles ==
    /\ pc = "start"
    /\ candidate_files \in SeqsUpTo(CandidatePaths, MaxCand)
    /\ reference_files \in SeqsUpTo(ReferencePaths, MaxRef)
    /\ fs \in SUBSET ReferencePaths
    /\ \A i \in 1..Len(reference_files) : reference_files[i] \in fs
    /\ nccmp_options = DefaultOptions
    /\ exclude_vars \in {Some(DefaultExcludeVars), None}
    /\ output_list = <<>>
    /\ compared = <<>>
    /\ retval = NoValue
    /\ warned = 0
    /\ idx = 0
    /\ CmpIdle /\ NwIdle /\ RelIdle

\* lines 86-87
NcfilesEnter ==
    /\ pc = "start"
    /\ Len(reference_files) > 0
    /\ idx' = 1
    /\ pc' = "loop"
    /\ UNCHANGED <<cmpVars, optVars, retval, warned, nfVars, nwVars, relVars>>

\* line 86 on an empty reference_files
NcfilesIndexError ==
    /\ pc = "start"
    /\ Len(reference_files) = 0
    /\ retval' = [kind |-> "IndexError", warn |-> FALSE]
    /\ pc' = "raised"
    /\ UNCHANGED <<cmpVars, optVars, idx, warned, nfVars, nwVars, relVars>>

\* lines 88-95: the reference file is there, compare_nc_nccmp is called
NcfilesCompare ==
    /\ pc = "loop"
    /\ idx <= Len(candidate_files)
    /\ LET file_candidate == candidate_files[idx] IN
       /\ is_file(file_reference(file_candidate))
       /\ compared' = Append(compared,
                             <<file_candidate, file_reference(file_candidate)>>)
       /\ \E rc \in ReturnCodes, out \in NfStdouts :
            LET nccmp_out ==
                  NccmpOut(CompletedProcess(
                      CommandList(file_candidate,
                                  file_reference(file_candidate),
                                  nccmp_options, exclude_vars),
                      rc, out))
            IN  IF Raised(nccmp_out)
                  THEN /\ retval' = nccmp_out
                       /\ pc' = "raised"
                       /\ UNCHANGED <<output_list, warned, idx>>
                  ELSE /\ output_list' = Append(output_list, nccmp_out)
                       /\ warned' = IF nccmp_out.warn THEN warned + 1 ELSE warned
                       /\ idx' = idx + 1
                       /\ UNCHANGED <<retval, pc>>
    /\ UNCHANGED <<cmpVars, optVars, candidate_files, reference_files, fs,
                   nwVars, relVars>>

\* lines 96-97: no such file in ref_dir
NcfilesMissing ==
    /\ pc = "loop"
    /\ idx <= Len(candidate_files)
    /\ ~is_file(file_reference(candidate_files[idx]))
    /\ warned' = warned + 1
    /\ idx' = idx + 1
    /\ UNCHANGED <<pc, cmpVars, optVars, retval, nfVars, nwVars, relVars>>

\* line 98
NcfilesReturn ==
    /\ pc = "loop"
    /\ idx > Len(candidate_files)
    /\ retval' = [kind |-> "list", warn |-> FALSE, list |-> output_list]
    /\ pc' = "done"
    /\ UNCHANGED <<cmpVars, optVars, idx, warned, nfVars, nwVars, relVars>>

NextNcfiles ==
    \/ NcfilesEnter
    \/ NcfilesIndexError
    \/ NcfilesCompare
    \/ NcfilesMissing
    \/ NcfilesReturn

SpecNcfiles == InitNcfiles /\ [][NextNcfiles]_vars

(***************************************************************************)
(* open_nwmdataset                                                         *)
(***************************************************************************)
RefTimes == {"T1", "T2", "T3"}

\* A file on disk: its reference time and the length of its time axis.  The
\* i-th path of the argument names the i-th file.
NwmFiles == [reference_time : RefTimes, ntime : 1..MaxTimes]

\* line 139: xr.open_dataset(a_file); the values of the time axis of the
\* i-th file are <<i, 1>> .. <<i, ntime>>
open_dataset(i) ==
    [reference_time |-> <<paths[i].reference_time>>,
     time |-> [k \in 1..paths[i].ntime |-> <<i, k>>]]

\* line 141: ref_time in ds_dict
InDict(keys, ref_time) == \E k \in 1..Len(keys) : keys[k] = ref_time

Slot(keys, ref_time) == CHOOSE k \in 1..Len(keys) : keys[k] = ref_time

\* the mutation of PutDataset that forgets the list already in the slot
PutDatasetOverwrite(keys, dict, ds) ==
    LET ref_time == ds.reference_time[1] IN
    IF InDict(keys, ref_time)
      THEN [keys |-> keys,
            dict |-> [dict EXCEPT ![Slot(keys, ref_time)] = <<ds>>]]
      ELSE [keys |-> Append(keys, ref_time), dict |-> Append(dict, <<ds>>)]

\* the mutation of PutDataset that puts the dataset first in its slot
PutDatasetFirst(keys, dict, ds) ==
    LET ref_time == ds.reference_time[1] IN
    IF InDict(keys, ref_time)
      THEN [keys |-> keys,
            dict |-> [dict EXCEPT ![Slot(keys, ref_time)] = <<ds>> \o @]]
      ELSE [keys |-> Append(keys, ref_time), dict |-> Append(dict, <<ds>>)]

\* lines 140-146: ds_dict (keys in insertion order, one list a key) after ds
PutDataset(keys, dict, ds) ==
    LET ref_time == ds.reference_time[1] IN
    IF InDict(keys, ref_time)
      THEN [keys |-> keys,
            dict |-> [dict EXCEPT ![Slot(keys, ref_time)] = Append(@, ds)]]
      ELSE [keys |-> Append(keys, ref_time), dict |-> Append(dict, <<ds>>)]

RECURSIVE TimeAxes(_)
TimeAxes(dss) ==
    IF Len(dss) = 0 THEN <<>> ELSE dss[1].time \o TimeAxes(Tail(dss))

\* lines 151-153: xr.concat(datasets, dim='time', coords='minimal')
ConcatTime(dss) ==
    [reference_time |-> dss[1].reference_time, time |-> TimeAxes(dss)]

RECURSIVE RefTimeAxes(_)
RefTimeAxes(fl) ==
    IF Len(fl) = 0 THEN <<>>
    ELSE fl[1].reference_time \o RefTimeAxes(Tail(fl))

\* lines 156-162: xr.concat(forecast_list, dim='reference_time',
\* coords='minimal'), then .chunk(chunks); slices[g] is the time axis of
\* the data at reference_time[g]
ConcatRefTime(fl, ch) ==
    [kind |-> "dataset", warn |-> FALSE,
     reference_time |-> RefTimeAxes(fl),
     slices |-> [g \in 1..Len(fl) |-> fl[g].time],
     chunked |-> ch.some]

ChunkSpecs == {None, Some(Lit("feature_id"))}

InitNwm ==
    /\ pc = "open"
    /\ paths \in SeqsUpTo(NwmFiles, MaxFiles)
    /\ chunks \in ChunkSpecs
    /\ ds_keys = <<>>
    /\ ds_dict = <<>>
    /\ forecast_list = <<>>
    /\ retval = NoValue
    /\ warned = 0
    /\ idx = 1
    /\ nccmp_options = <<>> /\ exclude_vars = None
    /\ CmpIdle /\ NfIdle /\ RelIdle

\* lines 138-146: one file
NwmOpenFile ==
    /\ pc = "open"
    /\ idx <= Len(paths)
    /\ LET put == PutDataset(ds_keys, ds_dict, open_dataset(idx)) IN
         /\ ds_keys' = put.keys
         /\ ds_dict' = put.dict
    /\ idx' = idx + 1
    /\ UNCHANGED <<pc, paths, chunks, forecast_list, retval, warned, cmpVars,
                   optVars, nfVars, relVars>>

\* line 149, the files exhausted
NwmFilesDone ==
    /\ pc = "open"
    /\ idx > Len(paths)
    /\ idx' = 1
    /\ pc' = "concat"
    /\ UNCHANGED <<nwVars, retval, warned, cmpVars, optVars, nfVars, relVars>>

\* lines 150-153: one key of ds_dict
NwmConcatGroup ==
    /\ pc = "concat"
    /\ idx <= Len(ds_keys)
    /\ forecast_list' = Append(forecast_list, ConcatTime(ds_dict[idx]))
    /\ idx' = idx + 1
    /\ UNCHANGED <<pc, paths, chunks, ds_keys, ds_dict, retval, warned,
                   cmpVars, optVars, nfVars, relVars>>

\* lines 156-164
NwmReturn ==
    /\ pc = "concat"
    /\ idx > Len(ds_keys)
    /\ Len(forecast_list) > 0
    /\ retval' = ConcatRefTime(forecast_list, chunks)
    /\ pc' = "done"
    /\ UNCHANGED <<idx, nwVars, warned, cmpVars, optVars, nfVars, relVars>>

\* line 156 with nothing to concatenate: xr.concat raises ValueError
NwmNothingToConcat ==
    /\ pc = "concat"
    /\ idx > Len(ds_keys)
    /\ Len(forecast_list) = 0
    /\ retval' = [kind |-> "ValueError", warn |-> FALSE]
    /\ pc' = "raised"
    /\ UNCHANGED <<idx, nwVars, warned, cmpVars, optVars, nfVars, relVars>>

NextNwm ==
    \/ NwmOpenFile
    \/ NwmFilesDone
    \/ NwmConcatGroup
    \/ NwmReturn
    \/ NwmNothingToConcat

SpecNwm == InitNwm /\ [][NextNwm]_vars

(***************************************************************************)
(* __make_relative__                                                       *)
(*                                                                         *)
(* A value carries its Python type in t.  An object is a function from its *)
(* attribute names to values.                                              *)
(***************************************************************************)
PosixPath(abs, parts) == [t |-> "PosixPath", abs |-> abs, parts |-> parts]
WrfHydroStatic(abs, parts) ==
    [t |-> "WrfHydroStatic", abs |-> abs, parts |-> parts]
PyStr(s) == [t |-> "str", s |-> s]
PyList(items) == [t |-> "list", items |-> items]
WrfHydroTs(items) == [t |-> "WrfHydroTs", items |-> items]
WrfHydroSim(domain) == [t |-> "WrfHydroSim", domain |-> domain]

IsPrefix(s, q) == Len(s) <= Len(q) /\ SubSeq(q, 1, Len(s)) = s

\* the mutation of RelativeToOk that takes absolute paths only
RelativeToOkAbsolute(p, base) ==
    p.abs /\ base.abs /\ IsPrefix(base.parts, p.parts)

\* PurePath.relative_to(base) raises ValueError unless base, anchor included,
\* is a prefix of the path
RelativeToOk(p, base) == p.abs = base.abs /\ IsPrefix(base.parts, p.parts)

\* the mutation of RelativeTo that keeps the last component only
RelativeToName(p, base) ==
    [p EXCEPT !.abs = FALSE,
              !.parts = IF Len(p.parts) = Len(base.parts) THEN <<>>
                        ELSE <<p.parts[Len(p.parts)]>>]

\* PurePath.relative_to(base): the rest of the path, of the path's own type
RelativeTo(p, base) ==
    [p EXCEPT !.abs = FALSE,
              !.parts = SubSeq(p.parts, Len(base.parts) + 1, Len(p.parts))]

\* the mutation of IsPathItem that forgets the static files
IsPathItemPosixOnly(item) == item.t = "PosixPath"

\* lines 186-187 and 193-194
IsPathItem(item) == item.t = "PosixPath" \/ item.t = "WrfHydroStatic"

\* the mutation of IsDunder that skips nothing
IsDunderNever(attr) == FALSE

\* line 181: attr.startswith('__')
IsDunder(attr) == attr \in {"__file__"}

\* lines 184-189 and 191-197: the element loop; attr_value is what setattr
\* last wrote (the attribute as found, before the first write)
RECURSIVE RelativeLoop(_, _, _, _, _)
RelativeLoop(items, base, t, relative_list, attr_value) ==
    IF Len(items) = 0
      THEN [val |-> attr_value, raised |-> FALSE]
    ELSE IF ~IsPathItem(items[1])
      THEN RelativeLoop(Tail(items), base, t, relative_list, attr_value)
    ELSE IF ~RelativeToOk(items[1], base)
      THEN [val |-> attr_value, raised |-> TRUE]
    ELSE LET appended == Append(relative_list, RelativeTo(items[1], base))
         IN  RelativeLoop(Tail(items), base, t, appended,
                          [t |-> t, items |-> appended])

\* lines 182-200: one attribute
RelativeAttr(attr_object, base) ==
    IF attr_object.t = "list" \/ attr_object.t = "WrfHydroTs"
      THEN RelativeLoop(attr_object.items, base, attr_object.t, <<>>,
                        attr_object)
    ELSE IF attr_object.t = "PosixPath"
      THEN IF RelativeToOk(attr_object, base)
             THEN [val |-> RelativeTo(attr_object, base), raised |-> FALSE]
             ELSE [val |-> attr_object, raised |-> TRUE]
    ELSE [val |-> attr_object, raised |-> FALSE]

\* dir(obj): the attribute names, sorted
SortedNames ==
    <<"__file__", "domain_top_dir", "hydro_files", "simulation",
      "simulation_dir", "streamflow">>
Dir(obj) == SelectSeq(SortedNames, LAMBDA a : a \in DOMAIN obj)

RECURSIVE MakeRelative(_, _)
RECURSIVE WalkAttrs(_, _, _)

\* lines 180-204: the attributes attrs, in order, of obj
WalkAttrs(obj, base, attrs) ==
    IF Len(attrs) = 0
      THEN [obj |-> obj, raised |-> FALSE]
    ELSE
      LET attr == attrs[1]
          own == IF IsDunder(attr)
                   THEN [val |-> obj[attr], raised |-> FALSE]
                   ELSE RelativeAttr(obj[attr], base)
          written == [obj EXCEPT ![attr] = own.val]
      IN  IF own.raised
            THEN [obj |-> written, raised |-> TRUE]
          ELSE IF attr = "simulation"
            THEN LET domain == written[attr].domain
                     inner == MakeRelative(domain, Some(domain["domain_top_dir"]))
                     after == [written EXCEPT ![attr].domain = inner.obj]
                 IN  IF inner.raised
                       THEN [obj |-> after, raised |-> TRUE]
                       ELSE WalkAttrs(after, base, Tail(attrs))
          ELSE WalkAttrs(written, base, Tail(attrs))

\* lines 178-204
MakeRelative(obj, bp) ==
    WalkAttrs(obj, IF bp.some THEN bp.val ELSE obj["simulation_dir"], Dir(obj))

\* the directories and files of the model
A   == <<"a">>
AB  == <<"a", "b">>
ABC == <<"a", "b", "c">>
D   == <<"d">>
AbsParts == {A, AB, ABC, D}

ListItems ==
    {PosixPath(TRUE, q) : q \in {AB, ABC, D}}
        \cup {WrfHydroStatic(TRUE, ABC), PyStr("restart")}

AttrValues ==
    {PyList(l) : l \in SeqsUpTo(ListItems, MaxList)}
        \cup {WrfHydroTs(l) : l \in SeqsUpTo(ListItems, MaxList)}
        \cup {PosixPath(TRUE, q) : q \in AbsParts}
        \cup {WrfHydroStatic(TRUE, q) : q \in AbsParts}
        \cup {PyStr("restart")}

DomainValues ==
    {PosixPath(TRUE, ABC), PosixPath(TRUE, D),
     WrfHydroTs(<<WrfHydroStatic(TRUE, ABC), PyStr("restart")>>),
     PyList(<<PyStr("restart")>>)}

Domains ==
    {("domain_top_dir" :> PosixPath(TRUE, AB)) @@ ("hydro_files" :> v) :
        v \in DomainValues}

RunObjects ==
    LET plain == {("__file__" :> PosixPath(TRUE, AB))
                    @@ ("simulation_dir" :> PosixPath(TRUE, q))
                    @@ ("streamflow" :> v) :
                        q \in {A, AB}, v \in AttrValues}
    IN  plain \cup {o @@ ("simulation" :> WrfHydroSim(d)) :
                        o \in plain, d \in Domains}

BaseArgs == {None, Some(PosixPath(TRUE, A)), Some(PosixPath(TRUE, AB))}

InitRel ==
    /\ pc = "idle"
    /\ run_object \in RunObjects
    /\ calls = <<>>
    /\ retval = NoValue
    /\ warned = 0
    /\ idx = 0
    /\ nccmp_options = <<>> /\ exclude_vars = None
    /\ CmpIdle /\ NfIdle /\ NwIdle

\* one call of __make_relative__(run_object, basepath), to its return or to
\* the ValueError that leaves it
MakeRelativeCall ==
    /\ Len(calls) < MaxCalls
    /\ \E bp \in BaseArgs :
         LET r == MakeRelative(run_object, bp) IN
           /\ run_object' = r.obj
           /\ calls' = Append(calls, [basepath |-> bp, before |-> run_object,
                                      after |-> r.obj, raised |-> r.raised])
           /\ pc' = IF r.raised THEN "raised" ELSE "done"
           /\ retval' = IF r.raised
                          THEN [kind |-> "ValueError", warn |-> FALSE]
                          ELSE [kind |-> "None", warn |-> FALSE]
    /\ UNCHANGED <<warned, idx, cmpVars, optVars, nfVars, nwVars>>

NextRel == MakeRelativeCall

SpecRel == InitRel /\ [][NextRel]_vars

(***************************************************************************)
(* Properties of compare_nc_nccmp (SpecNccmp)                              *)
(***************************************************************************)
Returned == pc \in {"done", "raised"}

\* standard output that is a whitespace-delimited table
ParsesAsTable(out) == Decodable(out) /\ ReadTableOk(out)

\* C1: exit status 0 returns None; a non-zero exit status returns the parsed
\* table when standard output parses as a table, and otherwise warns and
\* returns the subprocess object; a non-zero exit status never raises.
C1_OutcomeMapping ==
    Returned =>
        /\ proc.returncode = 0 => retval.kind = "None" /\ warned = 0
        /\ proc.returncode # 0 => pc # "raised"
        /\ (proc.returncode # 0 /\ ParsesAsTable(proc.stdout)) =>
              /\ retval.kind = "table"
              /\ retval.table = ReadTable(proc.stdout)
              /\ warned = 0
        /\ (proc.returncode # 0 /\ ~ParsesAsTable(proc.stdout)) =>
              /\ retval.kind = "proc"
              /\ retval.proc = proc
              /\ warned = 1

\* C2: the argv is nccmp, the flags in order, -S, an exclusion argument with
\* the comma-joined names only if the exclusion list is non-empty, then the
\* candidate and the reference path.
C2_ArgumentVector ==
    pc # "start" =>
        command_list =
            <<Lit("nccmp")>> \o nccmp_options \o <<Lit("-S")>>
              \o (IF exclude_vars.some /\ Len(exclude_vars.val) > 0
                    THEN <<Lit("-x ") \o Join(exclude_vars.val, Lit(","))>>
                    ELSE <<>>)
              \o <<Str(candidate_nc), Str(reference_nc)>>

(***************************************************************************)
(* Properties of compare_ncfiles (SpecNcfiles)                             *)
(***************************************************************************)
ReferenceNames ==
    {reference_files[i].name : i \in 1..Len(reference_files)}
ReferenceSet == {reference_files[i] : i \in 1..Len(reference_files)}

\* positions of the candidates whose filename is in the reference set
Matched == {i \in 1..Len(candidate_files) :
                candidate_files[i].name \in ReferenceNames}

\* C3: the returned list has exactly one entry per candidate that has a
\* matching reference file: length N when every filename is in the reference
\* set, one less, with a warning, for each candidate filename that is not.
C3_OneEntryPerMatch ==
    pc = "done" =>
        /\ retval.kind = "list"
        /\ Len(retval.list) = Cardinality(Matched)
        /\ warned >= Len(candidate_files) - Cardinality(Matched)

\* C4: every pair handed to compare_nc_nccmp is a candidate and a member of
\* reference_files of the same filename, and every candidate whose filename
\* is in reference_files is compared.
C4_OnlyCommonFiles ==
    /\ \A k \in 1..Len(compared) :
          /\ \E i \in 1..Len(candidate_files) :
                compared[k][1] = candidate_files[i]
          /\ compared[k][2] \in ReferenceSet
          /\ compared[k][2].name = compared[k][1].name
    /\ pc = "done" =>
          \A i \in Matched :
              \E k \in 1..Len(compared) : compared[k][1] = candidate_files[i]

(***************************************************************************)
(* Properties of open_nwmdataset (SpecNwm)                                 *)
(***************************************************************************)
KeysOfPaths == {paths[i].reference_time : i \in 1..Len(paths)}

\* the time lengths of the first n files that carry key, summed
RECURSIVE SumOfTimes(_, _)
SumOfTimes(key, n) ==
    IF n = 0 THEN 0
    ELSE SumOfTimes(key, n - 1)
           + (IF paths[n].reference_time = key THEN paths[n].ntime ELSE 0)

RECURSIVE FirstAppearance(_)
FirstAppearance(n) ==
    IF n = 0 THEN <<>>
    ELSE IF \E j \in 1..(n - 1) :
                paths[j].reference_time = paths[n].reference_time
      THEN FirstAppearance(n - 1)
      ELSE Append(FirstAppearance(n - 1), paths[n].reference_time)

\* the time axes of the first n files that carry key, in input order
RECURSIVE TimesInInputOrder(_, _)
TimesInInputOrder(key, n) ==
    IF n = 0 THEN <<>>
    ELSE TimesInInputOrder(key, n - 1)
           \o (IF paths[n].reference_time = key
                 THEN [k \in 1..paths[n].ntime |-> <<n, k>>]
                 ELSE <<>>)

BaseOf(c) ==
    IF c.basepath.some THEN c.basepath.val ELSE c.before["simulation_dir"]

DunderNames == {"__file__"}
PathLike(v) == v.t \in {"PosixPath", "WrfHydroStatic"}
LiesUnder(p, base) == p.abs = base.abs /\ IsPrefix(base.parts, p.parts)

\* r is p made relative to base
IsRemainder(r, p, base) ==
    /\ r.t = p.t
    /\ ~r.abs
    /\ p.parts = base.parts \o r.parts

\* every path of obj that a call looks at lies under base
AllUnder(obj, base) ==
    \A a \in (DOMAIN obj) \ DunderNames :
        LET v == obj[a] IN
        /\ v.t = "PosixPath" => LiesUnder(v, base)
        /\ v.t \in {"list", "WrfHydroTs"} =>
              \A i \in 1..Len(v.items) :
                  PathLike(v.items[i]) => LiesUnder(v.items[i], base)

\* C7: after a call, a single-path attribute that lay under the base is the
\* rest of the path, and a list attribute of such paths is the list, as
\* long, of the rests; without a base argument the base is simulation_dir as
\* it was when the call began.  The call returns when every path lies under
\* its base.
C7_RelativeToBase ==
    \A n \in 1..Len(calls) :
        LET c == calls[n]
            base == BaseOf(c)
        IN
        /\ (/\ AllUnder(c.before, base)
            /\ "simulation" \in DOMAIN c.before =>
                  AllUnder(c.before["simulation"].domain,
                           c.before["simulation"].domain["domain_top_dir"]))
              => ~c.raised
        /\ ~c.raised =>
              \A a \in (DOMAIN c.before) \ DunderNames :
                  LET v == c.before[a]
                      w == c.after[a]
                  IN  /\ (v.t = "PosixPath" /\ LiesUnder(v, base)) =>
                            IsRemainder(w, v, base)
                      /\ (/\ v.t = "list"
                          /\ \A i \in 1..Len(v.items) :
                                /\ PathLike(v.items[i])
                                /\ LiesUnder(v.items[i], base)) =>
                            /\ w.t = "list"
                            /\ Len(w.items) = Len(v.items)
                            /\ \A i \in 1..Len(v.items) :
                                  IsRemainder(w.items[i], v.items[i], base)

\* a list of two paths under /a, no base argument, simulation_dir /a
C7_Witness ==
    \E n \in 1..Len(calls) :
        LET c == calls[n] IN
        /\ ~c.raised
        /\ ~c.basepath.some
        /\ c.before["simulation_dir"] = PosixPath(TRUE, A)
        /\ c.before["streamflow"] =
              PyList(<<PosixPath(TRUE, ABC), PosixPath(TRUE, AB)>>)
        /\ c.after["simulation_dir"] = PosixPath(FALSE, <<>>)
        /\ c.after["streamflow"] =
              PyList(<<PosixPath(FALSE, <<"b", "c">>),
                       PosixPath(FALSE, <<"b">>)>>)

\* C8 as stated: a second call with the same base B after a first one that
\* completed completes and changes nothing.
C8_IdempotentSameBase ==
    \A n \in 2..Len(calls) :
        (/\ ~calls[n - 1].raised
         /\ calls[n - 1].basepath.some
         /\ calls[n].basepath = calls[n - 1].basepath) =>
            /\ ~calls[n].raised
            /\ calls[n].after = calls[n - 1].after

\* C8, amended: a second call without a base argument after a first such
\* call that completed completes and changes nothing; a second call with
\* the same absolute base B after a first one that completed raises.
C8_IdempotentDefaultBase ==
    \A n \in 2..Len(calls) :
        ~calls[n - 1].raised =>
            /\ (~calls[n - 1].basepath.some /\ ~calls[n].basepath.some) =>
                  /\ ~calls[n].raised
                  /\ calls[n].after = calls[n - 1].after
            /\ (/\ calls[n - 1].basepath.some
                /\ calls[n - 1].basepath.val.abs
                /\ calls[n].basepath = calls[n - 1].basepath) =>
                  calls[n].raised

\* two calls without a base argument on an object with a time series of two
\* paths and a simulation
C8_Witness ==
    /\ Len(calls) >= 2
    /\ ~calls[1].basepath.some /\ ~calls[2].basepath.some
    /\ ~calls[1].raised /\ ~calls[2].raised
    /\ "simulation" \in DOMAIN calls[1].before
    /\ calls[1].before["streamflow"] =
          WrfHydroTs(<<PosixPath(TRUE, ABC), WrfHydroStatic(TRUE, ABC)>>)
    /\ calls[1].after # calls[1].before
    /\ calls[2].after = calls[1].after

\* the path elements of items made relative to base, the others left out
RECURSIVE RelativeOfPaths(_, _)
RelativeOfPaths(items, base) ==
    IF Len(items) = 0 THEN <<>>
    ELSE (IF PathLike(items[1])
            THEN <<[t |-> items[1].t, abs |-> FALSE,
                    parts |-> SubSeq(items[1].parts, Len(base.parts) + 1,
                                     Len(items[1].parts))]>>
            ELSE <<>>)
           \o RelativeOfPaths(Tail(items), base)

\* C9: a list or time-series attribute with a path or static-file element
\* ends as the collection, of its own type, of those elements made relative
\* to the base, in order, the other elements left out: what one write after
\* the element loop would leave.
C9_ListWrittenOnce ==
    \A n \in 1..Len(calls) :
        LET c == calls[n] IN
        ~c.raised =>
          \A a \in (DOMAIN c.before) \ DunderNames :
              LET v == c.before[a] IN
              (/\ v.t \in {"list", "WrfHydroTs"}
               /\ \E i \in 1..Len(v.items) : PathLike(v.items[i])) =>
                  c.after[a] =
                      [t |-> v.t, items |-> RelativeOfPaths(v.items, BaseOf(c))]

\* a list of a string and a static file, and a time series of two paths
C9_Witness ==
    \E n \in 1..Len(calls) :
        LET c == calls[n] IN
        /\ ~c.raised
        /\ c.basepath = Some(PosixPath(TRUE, A))
        /\ c.before["streamflow"] =
              PyList(<<PyStr("restart"), WrfHydroStatic(TRUE, ABC)>>)
        /\ c.after["streamflow"] =
              PyList(<<WrfHydroStatic(FALSE, <<"b", "c">>)>>)
        /\ "simulation" \in DOMAIN c.before
        /\ c.before["simulation"].domain["hydro_files"].t = "WrfHydroTs"
        /\ c.after["simulation"].domain["hydro_files"] =
              WrfHydroTs(<<WrfHydroStatic(FALSE, <<"c">>)>>)

\* a value that carries no path
CarriesNoPath(v) ==
    IF v.t \in {"list", "WrfHydroTs"}
      THEN \A i \in 1..Len(v.items) : ~PathLike(v.items[i])
      ELSE v.t # "PosixPath"

\* the attributes of an object that a call may not write
Untouched(before, after) ==
    /\ DOMAIN after = DOMAIN before
    /\ \A a \in DOMAIN before :
          (a \in DunderNames \/ (a # "simulation" /\ CarriesNoPath(before[a])))
              => after[a] = before[a]

\* C10: across a call, whether it returns or raises, the double-underscore
\* attributes and the attributes that carry no path keep their values, on
\* the object and on simulation.domain, and simulation stays a simulation.
C10_Frame ==
    \A n \in 1..Len(calls) :
        LET c == calls[n] IN
        /\ Untouched(c.before, c.after)
        /\ "simulation" \in DOMAIN c.before =>
              /\ c.after["simulation"].t = "WrfHydroSim"
              /\ Untouched(c.before["simulation"].domain,
                           c.after["simulation"].domain)

\* __file__ lies under the base and stays; a list of strings stays, on the
\* object and on the domain, while the paths around them are rewritten
C10_Witness ==
    \E n \in 1..Len(calls) :
        LET c == calls[n] IN
        /\ ~c.raised
        /\ c.basepath = Some(PosixPath(TRUE, A))
        /\ c.before["__file__"] = PosixPath(TRUE, AB)
        /\ c.after["__file__"] = PosixPath(TRUE, AB)
        /\ c.before["streamflow"] = PyList(<<PyStr("restart"), PyStr("restart")>>)
        /\ c.after["streamflow"] = c.before["streamflow"]
        /\ c.after["simulation_dir"] # c.before["simulation_dir"]
        /\ "simulation" \in DOMAIN c.before
        /\ c.before["simulation"].domain["hydro_files"] =
              PyList(<<PyStr("restart")>>)
        /\ c.after["simulation"].domain["hydro_files"] =
              PyList(<<PyStr("restart")>>)
        /\ c.after["simulation"].domain["domain_top_dir"] = PosixPath(FALSE, <<>>)

====
